---------------------------- MODULE Spec2Model ----------------------------
(***************************************************************************)
(* Model of pysplot: a byte stream (serial port or piped stdin) is framed  *)
(* into lines, the delimiter and channel count are discovered from live    *)
(* traffic, records are parsed into samples, queued, emitted to the        *)
(* plotting window and committed into per-channel ring buffers.            *)
(*                                                                         *)
(* Bytes and characters are one-element strings.  "C3" and "A9" stand for  *)
(* the two bytes of the UTF-8 encoding of U+00E9, which decode together to *)
(* the character "U+E9"; either byte alone is an invalid sequence.         *)
(* Floating-point values are exact decimals [m, e] meaning m / 10^e.       *)
(***************************************************************************)
EXTENDS Integers, Sequences, FiniteSets, TLC

(***************************************************************************)
(* Bounds of the model.                                                    *)
(***************************************************************************)
MaxRecords == 2
MaxBuff == 2
MaxReadErrors == 1
MaxPartialReads == 1
MaxLineLen == 3
MaxSamples == 3
MaxRun == 17
MaxDiscards == 1

(***************************************************************************)
(* Program constants.                                                      *)
(***************************************************************************)
DELIMITER_OPTIONS == <<"\t", ",", " ", ";">>
DEFAULT_DELIMITER == "\t"
AUTOSCALE_SAMPLES == 10
SKIP_INITIAL_SAMPLES == 5
max_attempts == 100
ShortSleep == 1
Backoff == 100

None == "None"

(* A plot whose Y range has not been set by this program.                  *)
NoRange == <<>>

(* StdinWorker.run has not ended a tick yet.                               *)
NoSleep == 0

(* No file has been written by on_export_csv.                              *)
NoExport == [written |-> FALSE, header |-> <<>>, rows |-> <<>>]

Digits == {"0", "1", "2", "3"}
DigitVal(c) == CASE c = "0" -> 0 [] c = "1" -> 1 [] c = "2" -> 2 [] c = "3" -> 3
Whitespace == {" ", "\t", "\n"}

(***************************************************************************)
(* Generic sequence helpers.                                               *)
(***************************************************************************)
RECURSIVE Flatten(_)
Flatten(ss) == IF ss = <<>> THEN <<>> ELSE Head(ss) \o Flatten(Tail(ss))

Contains(s, c) == \E i \in 1..Len(s) : s[i] = c

IndexOf(s, c) == CHOOSE i \in 1..Len(s) : s[i] = c /\ \A j \in 1..(i - 1) : s[j] # c

Reverse(s) == [i \in 1..Len(s) |-> s[Len(s) + 1 - i]]

Take(s, n) == SubSeq(s, 1, n)

Drop(s, n) == SubSeq(s, n + 1, Len(s))

IsPrefix(s, t) == Len(s) <= Len(t) /\ Take(t, Len(s)) = s

(***************************************************************************)
(* bytes.decode("utf-8", errors="ignore") and bytes.decode().              *)
(***************************************************************************)
RECURSIVE DecodeIgnore(_)
DecodeIgnore(bs) ==
    IF bs = <<>> THEN <<>>
    ELSE IF bs[1] = "C3"
         THEN IF Len(bs) >= 2 /\ bs[2] = "A9"
              THEN <<"U+E9">> \o DecodeIgnore(Drop(bs, 2))
              ELSE DecodeIgnore(Tail(bs))
         ELSE IF bs[1] = "A9" THEN DecodeIgnore(Tail(bs))
              ELSE <<bs[1]>> \o DecodeIgnore(Tail(bs))

RECURSIVE ValidUtf8(_)
ValidUtf8(bs) ==
    IF bs = <<>> THEN TRUE
    ELSE IF bs[1] = "C3"
         THEN Len(bs) >= 2 /\ bs[2] = "A9" /\ ValidUtf8(Drop(bs, 2))
         ELSE bs[1] # "A9" /\ ValidUtf8(Tail(bs))

(***************************************************************************)
(* str.strip(), str.split(delim), float(str).                              *)
(***************************************************************************)
RECURSIVE LStrip(_)
LStrip(s) == IF s # <<>> /\ Head(s) \in Whitespace THEN LStrip(Tail(s)) ELSE s

Strip(s) == Reverse(LStrip(Reverse(LStrip(s))))

RECURSIVE Split(_, _)
Split(s, d) ==
    IF Contains(s, d)
    THEN <<Take(s, IndexOf(s, d) - 1)>> \o Split(Drop(s, IndexOf(s, d)), d)
    ELSE <<s>>

RECURSIVE DigitsValue(_)
DigitsValue(s) ==
    IF s = <<>> THEN 0 ELSE 10 * DigitsValue(Take(s, Len(s) - 1)) + DigitVal(s[Len(s)])

RECURSIVE Normalize(_)
Normalize(d) ==
    IF d.e > 0 /\ d.m % 10 = 0 THEN Normalize([m |-> d.m \div 10, e |-> d.e - 1]) ELSE d

Zero == [m |-> 0, e |-> 0]

IsFloat(s) ==
    /\ \A i \in 1..Len(s) : s[i] \in Digits \cup {"."}
    /\ Cardinality({i \in 1..Len(s) : s[i] = "."}) <= 1
    /\ \E i \in 1..Len(s) : s[i] \in Digits

ToFloat(s) ==
    LET ds == SelectSeq(s, LAMBDA c : c \in Digits)
        frac == IF Contains(s, ".") THEN Len(s) - IndexOf(s, ".") ELSE 0
    IN  Normalize([m |-> DigitsValue(ds), e |-> frac])

(***************************************************************************)
(* detect_delimiter: first candidate, in list order, that occurs in line.  *)
(***************************************************************************)
(* Mutation of detect_delimiter: the candidate that occurs earliest in the *)
(* line wins, whatever its rank in the list.                               *)
RECURSIVE EarliestInLine(_)
EarliestInLine(line) ==
    IF line = <<>> THEN DEFAULT_DELIMITER
    ELSE IF \E i \in 1..Len(DELIMITER_OPTIONS) : DELIMITER_OPTIONS[i] = Head(line)
         THEN Head(line)
         ELSE EarliestInLine(Tail(line))

RECURSIVE FirstPresent(_, _)
FirstPresent(opts, line) ==
    IF opts = <<>> THEN DEFAULT_DELIMITER
    ELSE IF Contains(line, Head(opts)) THEN Head(opts)
         ELSE FirstPresent(Tail(opts), line)

detect_delimiter(line) == FirstPresent(DELIMITER_OPTIONS, line)

(***************************************************************************)
(* [float(v.strip()) for v in line.split(delim)]: the sample, or the       *)
(* ValueError raised by the first field that is not a number.              *)
(***************************************************************************)
Fields(line, delim) == Split(line, delim)

ParseOk(line, delim) ==
    \A i \in 1..Len(Fields(line, delim)) : IsFloat(Strip(Fields(line, delim)[i]))

ParseValues(line, delim) ==
    [i \in 1..Len(Fields(line, delim)) |-> ToFloat(Strip(Fields(line, delim)[i]))]


(***************************************************************************)
(* Exact decimal arithmetic standing for numpy float64 arithmetic.         *)
(***************************************************************************)
RECURSIVE Pow10(_)
Pow10(n) == IF n = 0 THEN 1 ELSE 10 * Pow10(n - 1)

Max2(a, b) == IF a >= b THEN a ELSE b

Scaled(d, e) == d.m * Pow10(e - d.e)

DecLeq(a, b) == Scaled(a, Max2(a.e, b.e)) <= Scaled(b, Max2(a.e, b.e))

DecSub(a, b) ==
    Normalize([m |-> Scaled(a, Max2(a.e, b.e)) - Scaled(b, Max2(a.e, b.e)), e |-> Max2(a.e, b.e)])

DecAdd(a, b) ==
    Normalize([m |-> Scaled(a, Max2(a.e, b.e)) + Scaled(b, Max2(a.e, b.e)), e |-> Max2(a.e, b.e)])

DecTenth(a) == Normalize([m |-> a.m, e |-> a.e + 1])

Half == [m |-> 5, e |-> 1]

DecMin(s) == CHOOSE x \in {s[i] : i \in 1..Len(s)} : \A j \in 1..Len(s) : DecLeq(x, s[j])

DecMax(s) == CHOOSE x \in {s[i] : i \in 1..Len(s)} : \A j \in 1..Len(s) : DecLeq(s[j], x)

(***************************************************************************)
(* The Y range computed by apply_autoscale and rescale_to_first_10_percent *)
(* from one channel's data; old is kept when there is no data.             *)
(* Mutation of ValidData: zeros are data like any other value.             *)
AllData(y_data) == y_data

(***************************************************************************)
NonZero(y_data) == SelectSeq(y_data, LAMBDA v : v # Zero)

ValidData(y_data) == IF NonZero(y_data) # <<>> THEN NonZero(y_data) ELSE y_data

YPadding(y_min, y_max) ==
    IF DecSub(y_max, y_min).m > 0 THEN DecTenth(DecSub(y_max, y_min)) ELSE Half

YRange(y_data, old) ==
    IF Len(ValidData(y_data)) > 0
    THEN LET y_min == DecMin(ValidData(y_data))
             y_max == DecMax(ValidData(y_data))
         IN  <<DecSub(y_min, YPadding(y_min, y_max)), DecAdd(y_max, YPadding(y_min, y_max))>>
    ELSE old

VARIABLES
    mode,               \* "serial" or "pipe": which worker main() constructs
    full,               \* every byte the source will ever produce (history)
    stream,             \* bytes of the source the worker has not read yet
    closed,             \* the pipe's writer has closed its end
    errBudget,          \* read errors the byte source may still raise
    partialBudget,      \* readline timeouts in mid-line that may still happen
    pc,                 \* position of the worker
    running,            \* worker.running
    serOpen,            \* worker.ser.is_open
    delimiter,          \* worker.delimiter
    attempts,           \* detect_signals' attempts counter
    buffer,             \* StdinWorker.buffer
    raw_data,           \* StdinWorker.run's raw_data
    queue,              \* worker.queue
    inflight,           \* data_received emissions not yet handled by the slot
    errors,             \* number of error_occurred emissions
    num_signals,        \* window.num_signals
    buff_size,          \* window.buff_size
    frozen,             \* window.frozen
    sample_count,       \* window.sample_count
    autoscale_applied,  \* window.autoscale_applied
    autoscale_samples,  \* window.autoscale_samples
    sample_buffers,     \* window.sample_buffers
    yrange,             \* Y range last set on each plot
    stopped,            \* on_close has run
    exported,           \* the file on_export_csv wrote last, if any
    slept,              \* ms that StdinWorker.run slept at the end of its last tick
    linesLog,           \* history: non-empty stripped lines handed to a parser
    parsedLog,          \* history: samples appended to worker.queue
    deliveredLog,       \* history: samples handled by update_data
    committedLog,       \* history: samples committed to the rings
    disc                \* history: how detect_signals returned, the line it used
                        \* and the position in linesLog where steady state starts

envVars == <<mode, full, stream, closed, errBudget, partialBudget>>
workerVars == <<pc, running, serOpen, delimiter, attempts, buffer, raw_data, queue>>
eventVars == <<inflight, errors>>
winVars == <<num_signals, buff_size, frozen, sample_count, autoscale_applied,
             autoscale_samples, sample_buffers, yrange>>
histVars == <<linesLog, parsedLog, deliveredLog, committedLog, disc>>
vars == <<envVars, workerVars, eventVars, winVars, stopped, exported, slept, histVars>>

(***************************************************************************)
(* Input streams: newline-terminated records drawn from a small line set.  *)
(***************************************************************************)
LinesMain ==
    { <<>>, <<"1">>, <<"2">>, <<"1", ",", "2">>, <<"a">> }

RECURSIVE SeqsUpTo(_, _)
SeqsUpTo(S, n) ==
    IF n = 0 THEN {<<>>}
    ELSE SeqsUpTo(S, n - 1) \cup
         {Append(q, x) : q \in {r \in SeqsUpTo(S, n - 1) : Len(r) = n - 1}, x \in S}

Terminated(recs) == Flatten([i \in 1..Len(recs) |-> Append(recs[i], "\n")])

Streams(LineSet, n) == {Terminated(recs) : recs \in SeqsUpTo(LineSet, n)}

(***************************************************************************)
(* Framing of a text buffer on "\n".                                       *)
(***************************************************************************)
(* Mutation of CompleteLines: what follows the last "\n" is a line too.    *)
RECURSIVE LinesWithTail(_)
LinesWithTail(buf) ==
    IF Contains(buf, "\n")
    THEN <<Take(buf, IndexOf(buf, "\n") - 1)>> \o LinesWithTail(Drop(buf, IndexOf(buf, "\n")))
    ELSE IF buf = <<>> THEN <<>> ELSE <<buf>>

RECURSIVE CompleteLines(_)
CompleteLines(buf) ==
    IF Contains(buf, "\n")
    THEN <<Take(buf, IndexOf(buf, "\n") - 1)>> \o CompleteLines(Drop(buf, IndexOf(buf, "\n")))
    ELSE <<>>

RECURSIVE Remainder(_)
Remainder(buf) ==
    IF Contains(buf, "\n") THEN Remainder(Drop(buf, IndexOf(buf, "\n"))) ELSE buf

StripAll(lines) == [i \in 1..Len(lines) |-> Strip(lines[i])]

NonEmpty(lines) == SelectSeq(lines, LAMBDA l : l # <<>>)

(* Mutation of ParseAll: the first record that fails ends the parsing of   *)
(* the lines at hand.                                                      *)
RECURSIVE ParseUntilFailure(_, _, _)
ParseUntilFailure(lines, delim, base) ==
    IF lines = <<>> \/ ~ParseOk(Head(lines), delim) THEN <<>>
    ELSE <<[vals |-> ParseValues(Head(lines), delim), id |-> base + 1]>>
         \o ParseUntilFailure(Tail(lines), delim, base + 1)

(* Mutation of ParseAll: the delimiter is detected again for each record.  *)
RECURSIVE ParseAllRedetecting(_, _, _)
ParseAllRedetecting(lines, delim, base) ==
    IF lines = <<>> THEN <<>>
    ELSE (IF ParseOk(Head(lines), detect_delimiter(Head(lines)))
          THEN <<[vals |-> ParseValues(Head(lines), detect_delimiter(Head(lines))),
                  id |-> base + 1]>>
          ELSE <<>>) \o ParseAllRedetecting(Tail(lines), delim, base + 1)

(* The samples parsed from the non-empty stripped lines, each tagged with  *)
(* the position of its line among all lines handed to a parser.            *)
RECURSIVE ParseAll(_, _, _)
ParseAll(lines, delim, base) ==
    IF lines = <<>> THEN <<>>
    ELSE (IF ParseOk(Head(lines), delim)
          THEN <<[vals |-> ParseValues(Head(lines), delim), id |-> base + 1]>>
          ELSE <<>>) \o ParseAll(Tail(lines), delim, base + 1)

(* Mutation of PopAll: one sample is emitted per flush.                     *)
PopOne(q) == IF q = <<>> THEN <<>> ELSE <<Head(q)>>

(* Mutation of PopAll: the queue is emptied from its end (queue.pop()).    *)
PopAllFromEnd(q) == Reverse(q)

(* while self.queue: self.data_received.emit(self.queue.pop(0))            *)
RECURSIVE PopAll(_)
PopAll(q) == IF q = <<>> THEN <<>> ELSE <<Head(q)>> \o PopAll(Tail(q))

(* ser.readline() when the first k bytes of the source arrive before the   *)
(* timeout: the bytes up to and including the first "\n", else all k.      *)
ReadLine(src, k) ==
    IF Contains(Take(src, k), "\n") THEN Take(src, IndexOf(src, "\n")) ELSE Take(src, k)

LineEnd(src) == IF Contains(src, "\n") THEN IndexOf(src, "\n") ELSE Len(src)

(* How many bytes may arrive before readline's timeout: none, a whole      *)
(* line, or (while the budget lasts) a part of one.                        *)
ReadChoices(src) ==
    {0, LineEnd(src)} \cup (IF partialBudget > 0 THEN 1..LineEnd(src) ELSE {})

IsPartial(raw) == raw # <<>> /\ ~Contains(raw, "\n")

PartialLeft(raw) == IF IsPartial(raw) THEN partialBudget - 1 ELSE partialBudget

(***************************************************************************)
(* StackedPlotsWindow                                                      *)
(***************************************************************************)
Zeros(n) == [i \in 1..n |-> Zero]

DropLast(s) == IF s = <<>> THEN <<>> ELSE Take(s, Len(s) - 1)

(* np.column_stack([values, self.sample_buffers[:, :-1]])                  *)
ColumnStack(values, bufs) == [i \in 1..Len(bufs) |-> <<values[i]>> \o DropLast(bufs[i])]

WindowExists == pc \in {"top", "poll", "drain", "done"}

(* StackedPlotsWindow(num_signals, buff_size) as main() constructs it once *)
(* detect_signals has returned n.                                          *)
ConstructWindow(n) ==
    /\ num_signals' = n
    /\ sample_buffers' = [i \in 1..n |-> Zeros(buff_size)]
    /\ yrange' = [i \in 1..n |-> NoRange]
    /\ UNCHANGED <<buff_size, frozen, sample_count, autoscale_applied, autoscale_samples>>

(* Mutation of Accepted: the freeze flag is not consulted.                 *)
AcceptedWhenFrozen(values) == Len(values) = num_signals

(* Mutation of Accepted: a sample with at least num_signals values passes. *)
AcceptedAtLeast(values) == ~frozen /\ Len(values) >= num_signals

(* if not self.frozen and len(values) == self.num_signals                  *)
Accepted(values) == ~frozen /\ Len(values) = num_signals

(* curve.setData(x_axis, row) needs both arrays to have the same length.   *)
SetDataOk(bufs) == \A i \in 1..Len(bufs) : Len(bufs[i]) = buff_size

(* Mutation of ApplyAutoscale: the ranges are computed by the commit that  *)
(* completes the calibration and kept from then on.                        *)
ApplyAutoscaleOnce(bufs) ==
    IF autoscale_applied THEN yrange ELSE [i \in 1..Len(bufs) |-> YRange(bufs[i], yrange[i])]

ApplyAutoscale(bufs) == [i \in 1..Len(bufs) |-> YRange(bufs[i], yrange[i])]

(* Mutation of Collecting: the comparison is >=.                           *)
CollectingOneEarly(count) == count >= SKIP_INITIAL_SAMPLES

(* if self.sample_count > SKIP_INITIAL_SAMPLES                             *)
Collecting(count) == count > SKIP_INITIAL_SAMPLES

(* Mutation of CalibrationDone: one sample short.                          *)
CalibrationDoneEarly(window) == Len(window) = AUTOSCALE_SAMPLES - 1

(* if len(self.autoscale_samples) == AUTOSCALE_SAMPLES                     *)
CalibrationDone(window) == Len(window) = AUTOSCALE_SAMPLES

update_data(s) ==
    IF Accepted(s.vals)
    THEN LET count == IF autoscale_applied THEN sample_count ELSE sample_count + 1
             window == IF ~autoscale_applied /\ Collecting(count)
                       THEN Append(autoscale_samples, s.vals) ELSE autoscale_samples
             applied == autoscale_applied \/ CalibrationDone(window)
             bufs == ColumnStack(s.vals, sample_buffers)
         IN  /\ sample_count' = count
             /\ autoscale_samples' = window
             /\ autoscale_applied' = applied
             /\ sample_buffers' = bufs
             /\ yrange' = IF SetDataOk(bufs) /\ applied THEN ApplyAutoscale(bufs) ELSE yrange
             /\ committedLog' = Append(committedLog, s)
             /\ UNCHANGED <<num_signals, buff_size, frozen>>
    ELSE UNCHANGED <<winVars, committedLog>>

(* Mutation of Dequeued: a sample that arrives while the window is frozen  *)
(* stays pending.                                                          *)
KeptWhileFrozen(q) == IF frozen THEN q ELSE Tail(q)

(* The pending emissions once the slot has handled the oldest of them.     *)
Dequeued(q) == Tail(q)

(* The data_received slot runs update_data on the oldest pending emission. *)
(* No slot runs once the worker's loop has ended after on_close: the       *)
(* application leaves its event loop.  None runs in an aborted process.    *)
Deliver ==
    /\ inflight # <<>>
    /\ ~(stopped /\ pc = "done")
    /\ pc # "aborted"
    /\ update_data(Head(inflight))
    /\ inflight' = Dequeued(inflight)
    /\ deliveredLog' = Append(deliveredLog, [s |-> Head(inflight), frozen |-> frozen,
                                             accepted |-> Accepted(Head(inflight).vals)])
    /\ UNCHANGED <<envVars, workerVars, errors, stopped, exported, slept, linesLog, parsedLog, disc>>

on_freeze_toggled ==
    /\ WindowExists /\ ~stopped
    /\ frozen' = ~frozen
    /\ UNCHANGED <<num_signals, buff_size, sample_count, autoscale_applied,
                   autoscale_samples, sample_buffers, yrange>>
    /\ UNCHANGED <<envVars, workerVars, eventVars, stopped, exported, slept, histVars>>

num_samples_to_use == Max2(1, buff_size \div 10)

rescale_to_first_10_percent ==
    [i \in 1..Len(sample_buffers) |->
        YRange(SubSeq(sample_buffers[i], 1,
                      IF num_samples_to_use <= Len(sample_buffers[i])
                      THEN num_samples_to_use ELSE Len(sample_buffers[i])),
               yrange[i])]

(* num_samples_to_use / self.buff_size in the message printed last raises  *)
(* ZeroDivisionError when the capacity is 0.                               *)
RescaleRaises == buff_size = 0

(* An exception that leaves a slot is not handled anywhere: the process is *)
(* aborted.                                                                *)
Aborted == "aborted"

(* The Rescale button: the Y ranges are set, then the message is printed.  *)
on_rescale ==
    /\ WindowExists /\ ~stopped
    /\ yrange' = rescale_to_first_10_percent
    /\ pc' = IF RescaleRaises THEN Aborted ELSE pc
    /\ UNCHANGED <<num_signals, buff_size, frozen, sample_count, autoscale_applied,
                   autoscale_samples, sample_buffers>>
    /\ UNCHANGED <<running, serOpen, delimiter, attempts, buffer, raw_data, queue>>
    /\ UNCHANGED <<envVars, eventVars, stopped, exported, slept, histVars>>

(* self.sample_buffers.T                                                  *)
Transpose(bufs) ==
    IF bufs = <<>> THEN <<>>
    ELSE [j \in 1..Len(bufs[1]) |-> [i \in 1..Len(bufs) |-> bufs[i][j]]]

(* header=",".join(f"Signal {i + 1}" for i in range(self.num_signals))     *)
Header == [i \in 1..num_signals |-> <<"Signal", i>>]

(* The Export CSV button, shown only while the freeze button is checked.   *)
(* The file dialog is either confirmed, and np.savetxt writes the header   *)
(* and the rows of sample_buffers.T, or cancelled.                         *)
on_export_csv ==
    /\ WindowExists /\ ~stopped /\ frozen
    /\ \E ok \in BOOLEAN :
         exported' = IF ok THEN [written |-> TRUE, header |-> Header,
                                 rows |-> Transpose(sample_buffers)]
                     ELSE exported
    /\ UNCHANGED <<envVars, workerVars, eventVars, winVars, stopped, slept, histVars>>

(* on_close: worker.stop()                                                 *)
stop ==
    /\ WindowExists /\ ~stopped
    /\ stopped' = TRUE
    /\ UNCHANGED <<exported, slept>>
    /\ running' = FALSE
    /\ serOpen' = IF mode = "serial" THEN FALSE ELSE serOpen
    /\ UNCHANGED <<pc, delimiter, attempts, buffer, raw_data, queue>>
    /\ UNCHANGED <<envVars, eventVars, winVars, histVars>>

(***************************************************************************)
(* SerialWorker                                                            *)
(***************************************************************************)
(* Mutation of OpenFailed: the open is tried again.                        *)
OpenRetried == "open"

(* The exception of a failed open leaves __init__ and ends main() with     *)
(* "Fatal error".                                                          *)
OpenFailed == "fatal"

(* SerialWorker.__init__: serial.Serial(port, baudrate, timeout) either    *)
(* opens the port, and the fields are set up, or raises SerialException,   *)
(* which is reported through error_occurred and raised again.              *)
SerialOpen ==
    /\ mode = "serial" /\ pc = "open"
    /\ \/ /\ serOpen' = TRUE
          /\ running' = TRUE
          /\ pc' = "detect"
          /\ UNCHANGED errors
       \/ /\ errors' = errors + 1
          /\ pc' = OpenFailed
          /\ UNCHANGED <<serOpen, running>>
    /\ UNCHANGED <<delimiter, attempts, buffer, raw_data, queue, inflight>>
    /\ UNCHANGED <<envVars, winVars, stopped, exported, slept, histVars>>

(* One iteration of detect_signals' loop, or its fallback once the loop    *)
(* condition fails.  An error raised by readline is not caught there and   *)
(* ends main() with "Fatal error".  The local counter attempts ends with   *)
(* the call.                                                               *)
SerialDetectReturn(n, delim, how) ==
    /\ delimiter' = delim
    /\ attempts' = 0
    /\ ConstructWindow(n)
    /\ disc' = how
    /\ pc' = "top"

(* Mutation of SerialDetectContinue: the bound is tested with <=.          *)
SerialDetectOneMore == running /\ attempts <= max_attempts

(* while self.running and attempts < max_attempts                          *)
SerialDetectContinue == running /\ attempts < max_attempts

SerialDetect ==
    /\ mode = "serial" /\ pc = "detect"
    /\ IF ~SerialDetectContinue
       THEN /\ SerialDetectReturn(1, DEFAULT_DELIMITER, [kind |-> "fallback", line |-> <<>>, count |-> 1, first |-> 1])
            /\ UNCHANGED <<stream, errBudget, partialBudget>>
       ELSE \/ /\ errBudget > 0
               /\ errBudget' = errBudget - 1
               /\ pc' = "fatal"
               /\ attempts' = 0
               /\ UNCHANGED <<stream, partialBudget, delimiter, winVars, disc>>
            \/ \E k \in ReadChoices(stream) :
                 LET raw == ReadLine(stream, k)
                     line == Strip(DecodeIgnore(raw))
                 IN  /\ stream' = Drop(stream, Len(raw))
                     /\ partialBudget' = PartialLeft(raw)
                     /\ UNCHANGED errBudget
                     /\ IF ValidUtf8(raw) /\ line # <<>>
                        THEN /\ SerialDetectReturn(Len(Split(line, detect_delimiter(line))),
                                                   detect_delimiter(line),
                                                   [kind |-> "line", line |-> line, first |-> 1,
                                                    count |-> Len(Split(line, detect_delimiter(line)))])
                        ELSE /\ attempts' = attempts + 1
                             /\ UNCHANGED <<pc, delimiter, winVars, disc>>
    /\ UNCHANGED <<mode, full, closed, running, serOpen, buffer, raw_data, queue>>
    /\ UNCHANGED <<eventVars, stopped, exported, slept, linesLog, parsedLog, deliveredLog, committedLog>>

(* Mutation of LoopContinues: the reader goes on while bytes are left.     *)
LoopContinuesWhileData == running \/ stream # <<>>

(* The condition of run()'s outer loop, in both workers.                   *)
LoopContinues == running

(* while self.running:                                                     *)
SerialTop ==
    /\ mode = "serial" /\ pc = "top"
    /\ pc' = IF LoopContinues THEN "poll" ELSE "done"
    /\ UNCHANGED <<running, serOpen, delimiter, attempts, buffer, raw_data, queue>>
    /\ UNCHANGED <<envVars, eventVars, winVars, stopped, exported, slept, histVars>>

(* Mutation of PendingAfterAbort: the queue is cleared.                    *)
ClearedOnAbort(q) == <<>>

(* self.queue once an exception has ended the tick: neither handler of     *)
(* run() touches it.                                                       *)
PendingAfterAbort(q) == q

(* One evaluation of `while self.ser.in_waiting` with the body it guards;  *)
(* when nothing is waiting, the flush of the queue and the sleep.          *)
SerialPoll ==
    /\ mode = "serial" /\ pc = "poll"
    /\ \/ /\ ~serOpen
          /\ errors' = errors + 1
          /\ pc' = "top"
          /\ queue' = PendingAfterAbort(queue)
          /\ UNCHANGED <<stream, errBudget, partialBudget, inflight, linesLog, parsedLog>>
       \/ /\ serOpen /\ errBudget > 0
          /\ errBudget' = errBudget - 1
          /\ errors' = errors + 1
          /\ pc' = "top"
          /\ queue' = PendingAfterAbort(queue)
          /\ UNCHANGED <<stream, partialBudget, inflight, linesLog, parsedLog>>
       \/ /\ serOpen
          /\ \E k \in ReadChoices(stream) :
               IF k = 0
               THEN /\ inflight' = inflight \o PopAll(queue)
                    /\ queue' = <<>>
                    /\ pc' = "top"
                    /\ UNCHANGED <<stream, errBudget, partialBudget, errors, linesLog, parsedLog>>
               ELSE LET raw == ReadLine(stream, k)
                        line == Strip(DecodeIgnore(raw))
                        new == ParseAll(<<line>>, delimiter, Len(linesLog))
                    IN  /\ stream' = Drop(stream, Len(raw))
                        /\ partialBudget' = PartialLeft(raw)
                        /\ UNCHANGED <<errBudget, errors, inflight>>
                        /\ IF ~ValidUtf8(raw)
                           THEN /\ pc' = "top"
                                /\ queue' = PendingAfterAbort(queue)
                                /\ UNCHANGED <<linesLog, parsedLog>>
                           ELSE /\ pc' = "poll"
                                /\ IF line # <<>>
                                   THEN /\ linesLog' = Append(linesLog, line)
                                        /\ queue' = queue \o new
                                        /\ parsedLog' = parsedLog \o new
                                   ELSE UNCHANGED <<queue, linesLog, parsedLog>>
    /\ UNCHANGED <<mode, full, closed, running, serOpen, delimiter, attempts, buffer, raw_data>>
    /\ UNCHANGED <<winVars, stopped, exported, slept, deliveredLog, committedLog, disc>>

(***************************************************************************)
(* StdinWorker                                                             *)
(***************************************************************************)
(* Mutation of DetectEnqueue: the sample discovery parsed is dropped.       *)
DetectDiscard(q, new) == q

(* self.queue.append(values) in detect_signals                             *)
DetectEnqueue(q, new) == q \o new

PipeDetectReturn(n, how) ==
    /\ ConstructWindow(n)
    /\ disc' = how
    /\ pc' = "top"

(* One iteration of detect_signals' loop: os.read(fd, 4096) returns the k  *)
(* bytes that are in the pipe; none (or end of file) means sleep and retry.*)
(* Any other error of the read ends the call with the fallback 1.          *)
PipeDetectError ==
    /\ mode = "pipe" /\ pc = "detect"
    /\ errBudget > 0
    /\ errBudget' = errBudget - 1
    /\ PipeDetectReturn(1, [kind |-> "error", line |-> <<>>, count |-> 1,
                             first |-> Len(linesLog) + 1])
    /\ UNCHANGED <<stream, delimiter, buffer, queue, linesLog, parsedLog>>
    /\ UNCHANGED <<mode, full, closed, partialBudget, running, serOpen, attempts, raw_data>>
    /\ UNCHANGED <<eventVars, stopped, exported, slept, deliveredLog, committedLog>>

(* What one iteration does with the k bytes the read returned: the new    *)
(* buffer, delimiter and queue, the line it parsed (if any), the sample    *)
(* parsed from it (if any).                                                *)
PipeDetectStep(k) ==
    LET text == buffer \o DecodeIgnore(Take(stream, k))
        hasLine == k > 0 /\ Contains(text, "\n")
        line == IF hasLine THEN Strip(Head(CompleteLines(text))) ELSE <<>>
        new == IF line # <<>>
               THEN ParseAll(<<line>>, detect_delimiter(line), Len(linesLog)) ELSE <<>>
    IN  [buffer |-> IF k = 0 THEN buffer
                    ELSE IF hasLine THEN Drop(text, IndexOf(text, "\n")) ELSE text,
         delimiter |-> IF line # <<>> THEN detect_delimiter(line) ELSE delimiter,
         line |-> line,
         new |-> new]

PipeDetect ==
    /\ mode = "pipe" /\ pc = "detect"
    /\ \E k \in 0..Len(stream) :
         \E r \in {PipeDetectStep(k)} :
             /\ stream' = Drop(stream, k)
             /\ buffer' = r.buffer
             /\ delimiter' = r.delimiter
             /\ linesLog' = IF r.line # <<>> THEN Append(linesLog, r.line) ELSE linesLog
             /\ queue' = DetectEnqueue(queue, r.new)
             /\ parsedLog' = parsedLog \o r.new
             /\ IF r.new # <<>>
                THEN PipeDetectReturn(Len(r.new[1].vals),
                                      [kind |-> "line", line |-> r.line,
                                       count |-> Len(r.new[1].vals),
                                       first |-> Len(linesLog) + 1])
                ELSE UNCHANGED <<pc, winVars, disc>>
    /\ UNCHANGED <<mode, full, closed, errBudget, partialBudget, running, serOpen, attempts, raw_data>>
    /\ UNCHANGED <<eventVars, stopped, exported, slept, deliveredLog, committedLog>>

(* while self.running: raw_data = b""                                      *)
PipeTop ==
    /\ mode = "pipe" /\ pc = "top"
    /\ pc' = IF LoopContinues THEN "drain" ELSE "done"
    /\ raw_data' = <<>>
    /\ UNCHANGED <<running, serOpen, delimiter, attempts, buffer, queue>>
    /\ UNCHANGED <<envVars, eventVars, winVars, stopped, exported, slept, histVars>>

(* The rest of a tick once the drain loop breaks: decode, frame, parse,    *)
(* flush, time.sleep(0.001).  Nothing in it raises, so the handler of the  *)
(* outer try, with its time.sleep(0.1), is not entered.                    *)
PipeFinishTick ==
    LET text == IF raw_data # <<>> THEN buffer \o DecodeIgnore(raw_data) ELSE buffer
        lines == NonEmpty(StripAll(CompleteLines(text)))
        new == ParseAll(lines, IF delimiter # None THEN delimiter ELSE DEFAULT_DELIMITER,
                        Len(linesLog))
    IN  /\ buffer' = Remainder(text)
        /\ linesLog' = linesLog \o lines
        /\ parsedLog' = parsedLog \o new
        /\ inflight' = inflight \o PopAll(queue \o new)
        /\ queue' = <<>>
        /\ raw_data' = <<>>
        /\ slept' = ShortSleep
        /\ pc' = "top"

(* One os.read(fd, 8192) of the drain loop.                                *)
PipeDrain ==
    /\ mode = "pipe" /\ pc = "drain"
    /\ \/ /\ errBudget > 0
          /\ errBudget' = errBudget - 1
          /\ PipeFinishTick
          /\ UNCHANGED stream
       \/ \E k \in 0..Len(stream) :
            /\ stream' = Drop(stream, k)
            /\ UNCHANGED errBudget
            /\ IF k = 0
               THEN PipeFinishTick
               ELSE /\ raw_data' = raw_data \o Take(stream, k)
                    /\ UNCHANGED <<pc, buffer, queue, inflight, linesLog, parsedLog, slept>>
    /\ UNCHANGED <<mode, full, closed, partialBudget, running, serOpen, delimiter, attempts>>
    /\ UNCHANGED <<errors, winVars, stopped, exported, deliveredLog, committedLog, disc>>

(* The writer closes its end of the pipe once it has written everything.   *)
CloseWriter ==
    /\ mode = "pipe" /\ ~closed /\ stream = <<>>
    /\ closed' = TRUE
    /\ UNCHANGED <<mode, full, stream, errBudget, partialBudget>>
    /\ UNCHANGED <<workerVars, eventVars, winVars, stopped, exported, slept, histVars>>

(***************************************************************************)
(* The system.                                                             *)
(***************************************************************************)
InitRest(Sizes) ==
    /\ queue = <<>>
    /\ inflight = <<>>
    /\ errors = 0
    /\ num_signals = 0
    /\ buff_size \in Sizes
    /\ frozen = FALSE
    /\ sample_count = 0
    /\ autoscale_applied = FALSE
    /\ autoscale_samples = <<>>
    /\ sample_buffers = <<>>
    /\ yrange = <<>>
    /\ stopped = FALSE
    /\ exported = NoExport
    /\ slept = NoSleep
    /\ linesLog = <<>>
    /\ parsedLog = <<>>
    /\ deliveredLog = <<>>
    /\ committedLog = <<>>
    /\ disc = [kind |-> "pending", line |-> <<>>, count |-> 0, first |-> 0]

(* The state when main() is at `start`: "detect", having constructed the   *)
(* worker, or "open", about to construct it; the source is StreamSet.      *)
InitAt(Modes, StreamSet, Sizes, start) ==
    /\ mode \in Modes
    /\ full \in StreamSet
    /\ stream = full
    /\ closed = FALSE
    /\ errBudget = MaxReadErrors
    /\ partialBudget = IF mode = "serial" THEN MaxPartialReads ELSE 0
    /\ pc = start
    /\ running = (start = "detect")
    /\ serOpen = (mode = "serial" /\ start = "detect")
    /\ delimiter = None
    /\ attempts = 0
    /\ buffer = <<>>
    /\ raw_data = <<>>
    /\ InitRest(Sizes)

(* The state once main() has constructed the worker, reading StreamSet.    *)
InitWith(Modes, StreamSet, Sizes) == InitAt(Modes, StreamSet, Sizes, "detect")

Init == InitWith({"serial", "pipe"}, Streams(LinesMain, MaxRecords), {MaxBuff})

(* The worker thread, the delivery of its samples to the window, the       *)
(* freeze button and the closing of the window.  The rescale button reads  *)
(* the rings and writes only the plots' Y ranges, which nothing here       *)
(* reads; it is exercised with the window in SpecWindow.                   *)
Next ==
    \/ SerialDetect \/ SerialTop \/ SerialPoll
    \/ PipeDetectError \/ PipeDetect \/ PipeTop \/ PipeDrain \/ CloseWriter
    \/ Deliver \/ on_freeze_toggled \/ stop

Spec == Init /\ [][Next]_vars

(* Streams that carry a two-byte UTF-8 character.                          *)
LinesUtf8 == { <<>>, <<"1">>, <<"1", "C3", "A9">> }

InitUtf8 == InitWith({"serial", "pipe"}, Streams(LinesUtf8, MaxRecords), {MaxBuff})

SpecUtf8 == InitUtf8 /\ [][Next]_vars

(* The two-record scenario "1.0,2.0,3.0", "1.1,2.1,3.1".                   *)
ScenarioStream ==
    Terminated(<< <<"1", ".", "0", ",", "2", ".", "0", ",", "3", ".", "0">>,
                  <<"1", ".", "1", ",", "2", ".", "1", ",", "3", ".", "1">> >>)

InitScenario == InitWith({"serial", "pipe"}, {ScenarioStream}, {MaxBuff})

SpecScenario == InitScenario /\ [][Next]_vars

(* A serial session from the construction of the worker on.               *)
InitOpen == InitAt({"serial"}, {ScenarioStream}, {MaxBuff}, "open")

NextOpen ==
    \/ SerialOpen \/ SerialDetect \/ SerialTop \/ SerialPoll
    \/ Deliver \/ on_freeze_toggled \/ stop

SpecOpen == InitOpen /\ [][NextOpen]_vars

(***************************************************************************)
(* A pipe whose writer ends its output with a record that has no "\n":     *)
(* at most MaxRecords terminated records, then "2" or "1,2".               *)
(***************************************************************************)
LinesBefore == { <<>>, <<"1">>, <<"a">> }

FinalRecords == { <<"2">>, <<"1", ",", "2">> }

StreamsUnterminated ==
    {Terminated(recs) \o last : recs \in SeqsUpTo(LinesBefore, MaxRecords), last \in FinalRecords}

InitUnterminated == InitWith({"pipe"}, StreamsUnterminated, {MaxBuff})

NextPipe ==
    \/ PipeDetectError \/ PipeDetect \/ PipeTop \/ PipeDrain \/ CloseWriter
    \/ Deliver \/ on_freeze_toggled \/ stop

SpecUnterminated == InitUnterminated /\ [][NextPipe]_vars

(***************************************************************************)
(* A serial device that never falls silent: whenever the reader has taken  *)
(* everything sent so far, the device may already have sent one more line  *)
(* terminator (full keeps the records sent before these).  The reader      *)
(* thread and the event loop that runs the slots are scheduled fairly; the *)
(* device owes nothing.                                                    *)
(***************************************************************************)
Arrive ==
    /\ mode = "serial" /\ serOpen /\ stream = <<>>
    /\ stream' = <<"\n">>
    /\ UNCHANGED <<mode, full, closed, errBudget, partialBudget>>
    /\ UNCHANGED <<workerVars, eventVars, winVars, stopped, exported, slept, histVars>>

InitSaturated == InitWith({"serial"}, Streams(LinesMain, MaxRecords), {MaxBuff})

NextSaturated == SerialDetect \/ SerialTop \/ SerialPoll \/ Arrive \/ Deliver

SpecSaturated ==
    /\ InitSaturated /\ [][NextSaturated]_vars
    /\ WF_vars(SerialDetect) /\ WF_vars(SerialTop) /\ WF_vars(SerialPoll) /\ WF_vars(Deliver)

(***************************************************************************)
(* The window on its own: constructed for any channel count and buffer     *)
(* size, it is handed any sequence of up to MaxSamples samples, of the     *)
(* right shape or not, while the user freezes, unfreezes and rescales.     *)
(***************************************************************************)
One == [m |-> 1, e |-> 0]
Two == [m |-> 2, e |-> 0]

ChannelCounts == {1, 2}

SampleValues == { <<Zero>>, <<One>>, <<Two>>, <<One, Two>>, <<Two, Zero>> }

(* self.data_received.emit(values) by whichever worker is running.         *)
EmitAny ==
    /\ WindowExists /\ inflight = <<>>
    /\ Len(parsedLog) < MaxSamples
    /\ \E v \in SampleValues :
         LET s == [vals |-> v, id |-> Len(parsedLog) + 1]
         IN  /\ inflight' = <<s>>
             /\ parsedLog' = Append(parsedLog, s)
    /\ UNCHANGED <<envVars, workerVars, errors, winVars, stopped, exported, slept>>
    /\ UNCHANGED <<linesLog, deliveredLog, committedLog, disc>>

InitWindow ==
    /\ mode \in {"serial", "pipe"}
    /\ full = <<>>
    /\ stream = <<>>
    /\ closed = FALSE
    /\ errBudget = 0
    /\ partialBudget = 0
    /\ pc = "top"
    /\ running = TRUE
    /\ serOpen = (mode = "serial")
    /\ delimiter = DEFAULT_DELIMITER
    /\ attempts = 0
    /\ buffer = <<>>
    /\ raw_data = <<>>
    /\ queue = <<>>
    /\ inflight = <<>>
    /\ errors = 0
    /\ num_signals \in ChannelCounts
    /\ buff_size \in 0..MaxBuff
    /\ frozen = FALSE
    /\ sample_count = 0
    /\ autoscale_applied = FALSE
    /\ autoscale_samples = <<>>
    /\ sample_buffers = [i \in 1..num_signals |-> Zeros(buff_size)]
    /\ yrange = [i \in 1..num_signals |-> NoRange]
    /\ stopped = FALSE
    /\ exported = NoExport
    /\ slept = NoSleep
    /\ linesLog = <<>>
    /\ parsedLog = <<>>
    /\ deliveredLog = <<>>
    /\ committedLog = <<>>
    /\ disc = [kind |-> "given", line |-> <<>>, count |-> num_signals, first |-> 1]

NextWindow == EmitAny \/ Deliver \/ on_freeze_toggled \/ on_rescale \/ on_export_csv

SpecWindow == InitWindow /\ [][NextWindow]_vars

(***************************************************************************)
(* The window fed a long run of samples: the k-th sample emitted carries   *)
(* the value k in every field, so that samples can be told apart.  At most *)
(* MaxRun samples are emitted, of which at most MaxDiscards are emitted    *)
(* with one field too many or while the window is frozen; the user toggles *)
(* the freeze button between samples, and rescales at any time.  Once the  *)
(* autoscale is applied a sample may also carry the value 0 in every       *)
(* field.                                                                  *)
(***************************************************************************)
Counted(k, n) == [i \in 1..n |-> [m |-> k, e |-> 0]]

Discarded == Len(deliveredLog) - Len(committedLog)

EmitCounted ==
    /\ WindowExists /\ inflight = <<>>
    /\ Len(parsedLog) < MaxRun
    /\ \E n \in {num_signals, num_signals + 1} :
         /\ (frozen \/ n # num_signals) => Discarded < MaxDiscards
         /\ \E v \in {Counted(Len(parsedLog) + 1, n)} \cup
                      (IF autoscale_applied THEN {Zeros(n)} ELSE {}) :
               LET s == [vals |-> v, id |-> Len(parsedLog) + 1]
               IN  /\ inflight' = <<s>>
                   /\ parsedLog' = Append(parsedLog, s)
    /\ UNCHANGED <<envVars, workerVars, errors, winVars, stopped, exported, slept>>
    /\ UNCHANGED <<linesLog, deliveredLog, committedLog, disc>>

FreezeIdle == inflight = <<>> /\ on_freeze_toggled

InitAutoscale == InitWindow /\ buff_size = MaxBuff

NextAutoscale == EmitCounted \/ Deliver \/ FreezeIdle \/ on_rescale

SpecAutoscale == InitAutoscale /\ [][NextAutoscale]_vars

(***************************************************************************)
(* detect_delimiter on its own: every line over the candidate characters   *)
(* and a digit, up to MaxLineLen characters, is passed to it once.         *)
(***************************************************************************)
DelimiterChars == {"\t", ",", " ", ";", "1"}

detect_delimiter_call ==
    /\ pc = "call"
    /\ delimiter' = detect_delimiter(buffer)
    /\ pc' = "returned"
    /\ UNCHANGED <<running, serOpen, attempts, buffer, raw_data, queue>>
    /\ UNCHANGED <<envVars, eventVars, winVars, stopped, exported, slept, histVars>>

InitDelimiter ==
    /\ mode \in {"serial", "pipe"}
    /\ full = <<>>
    /\ stream = <<>>
    /\ closed = FALSE
    /\ errBudget = 0
    /\ partialBudget = 0
    /\ pc = "call"
    /\ running = TRUE
    /\ serOpen = (mode = "serial")
    /\ delimiter = None
    /\ attempts = 0
    /\ buffer \in SeqsUpTo(DelimiterChars, MaxLineLen)
    /\ raw_data = <<>>
    /\ InitRest({MaxBuff})

NextDelimiter == detect_delimiter_call

SpecDelimiter == InitDelimiter /\ [][NextDelimiter]_vars

(***************************************************************************)
(* Properties.                                                             *)
(***************************************************************************)
Emitted == [i \in 1..Len(deliveredLog) |-> deliveredLog[i].s] \o inflight

SessionDelimiter == IF delimiter # None THEN delimiter ELSE DEFAULT_DELIMITER

AcceptedOf(log) ==
    LET kept == SelectSeq(log, LAMBDA d : d.accepted)
    IN  [i \in 1..Len(kept) |-> kept[i].s]

(* C1: the samples committed to the rings are, in order and without loss,  *)
(* duplication or coalescing, the records the reader parsed successfully:  *)
(* what was emitted and what is still queued is exactly the parse of the   *)
(* steady-state lines in stream order, and the commits are exactly the     *)
(* deliveries made while not frozen and with the matching shape.           *)
C1_CommitOrder ==
    WindowExists =>
        /\ Emitted \o queue = parsedLog
        /\ parsedLog = ParseAll(Drop(linesLog, disc.first - 1), SessionDelimiter, disc.first - 1)
        /\ committedLog = AcceptedOf(deliveredLog)
        /\ \A i \in 1..Len(committedLog) : \A j \in 1..Len(committedLog) :
               i < j => committedLog[i].id < committedLog[j].id

C1_Witness ==
    /\ Len(committedLog) >= 2
    /\ committedLog[1].vals # committedLog[2].vals
    /\ committedLog[1].id < committedLog[2].id

(* C3: detect_delimiter returns the first of tab, comma, space, semicolon  *)
(* (in that order) that occurs anywhere in the line, and tab when none of  *)
(* them occurs.                                                            *)
Rank(c) == CASE c = "\t" -> 1 [] c = "," -> 2 [] c = " " -> 3 [] c = ";" -> 4

Candidates == {"\t", ",", " ", ";"}

C3_FirstCandidateWins ==
    pc = "returned" =>
        /\ delimiter \in Candidates
        /\ (\A c \in Candidates : ~Contains(buffer, c)) => delimiter = "\t"
        /\ (\E c \in Candidates : Contains(buffer, c)) =>
               /\ Contains(buffer, delimiter)
               /\ \A c \in Candidates : Contains(buffer, c) => Rank(delimiter) <= Rank(c)

C3_Witness ==
    /\ pc = "returned"
    /\ buffer = <<";", " ", ",">>
    /\ delimiter = ","

(* C6: serial discovery reads at most max_attempts (100) times; when no    *)
(* read yields a record it returns 1 with the default delimiter, without   *)
(* raising and without an error event, and no read happens once the        *)
(* attempts are used up.                                                   *)
C6_BoundedDiscovery ==
    /\ []((mode = "serial" /\ pc = "detect") => (attempts <= max_attempts /\ errors = 0))
    /\ [](disc.kind = "fallback" =>
            /\ mode = "serial" /\ pc # "fatal"
            /\ num_signals = 1 /\ disc.count = 1
            /\ delimiter = "\t")
    /\ [][(mode = "serial" /\ pc = "detect" /\ attempts >= max_attempts) =>
            (stream' = stream /\ pc' = "top" /\ disc'.kind = "fallback" /\ errors' = errors)]_vars

C6_Witness ==
    /\ mode = "serial" /\ disc.kind = "fallback" /\ pc = "top"
    /\ num_signals = 1 /\ delimiter = "\t" /\ stream = full /\ full # <<>>

(* C8: in pipe mode the sample discovery parsed is queued when discovery   *)
(* returns and is the first sample emitted: exactly once, and before every *)
(* sample of a later record.                                               *)
C8_DiscoverySampleFirst ==
    (mode = "pipe" /\ disc.kind = "line") =>
        LET all == Emitted \o queue
        IN  /\ Len(all) >= 1
            /\ all[1] = [vals |-> ParseValues(disc.line, delimiter), id |-> disc.first]
            /\ \A i \in 2..Len(all) : all[i].id > disc.first

C8_Witness ==
    /\ mode = "pipe" /\ disc.kind = "line"
    /\ Len(deliveredLog) >= 2
    /\ deliveredLog[1].s.id = disc.first

(* C2: in the pipe reader the non-empty stripped lines handed to the       *)
(* parser are, whatever the chunking, those of the whole byte sequence     *)
(* decoded and framed at once.                                             *)
ExpectedLines(bytes) == NonEmpty(StripAll(CompleteLines(DecodeIgnore(bytes))))

C2_ChunkIndependence ==
    mode = "pipe" =>
        /\ IsPrefix(linesLog, ExpectedLines(full))
        /\ (pc \in {"top", "done"} /\ stream = <<>> /\ ~Contains(buffer, "\n"))
               => linesLog = ExpectedLines(full)

(* C4: discovery never returns a channel count or a delimiter taken from a *)
(* record that fails numeric conversion: what it returns is the field      *)
(* count and detected delimiter of a record whose fields are all numbers.  *)
C4_DiscoveryFromNumericRecord ==
    /\ disc.kind = "line" =>
           /\ ParseOk(disc.line, detect_delimiter(disc.line))
           /\ disc.count = Len(ParseValues(disc.line, detect_delimiter(disc.line)))
           /\ delimiter = detect_delimiter(disc.line)
    /\ disc.kind = "error" => delimiter = None

(* C5: pipe discovery returns once a complete numeric line has been        *)
(* received, even when no further byte ever arrives.  With every byte of   *)
(* the stream read, each further iteration of the loop reads nothing and   *)
(* changes nothing, so discovery must not be waiting in such a state with  *)
(* a complete numeric line in its buffer.                                  *)
NumericLineReceived ==
    /\ mode = "pipe" /\ pc = "detect"
    /\ \E i \in 1..Len(CompleteLines(buffer)) :
         LET line == Strip(CompleteLines(buffer)[i])
         IN  line # <<>> /\ ParseOk(line, detect_delimiter(line))

C5_DiscoveryReturns == ~(NumericLineReceived /\ stream = <<>>)

(* C7: for the stream "1.0,2.0,3.0", "1.1,2.1,3.1", read without error,    *)
(* timeout or freeze, discovery yields 3 channels and ',', and once both   *)
(* records are through, ring index 0 is [1.1, 2.1, 3.1] and ring index 1   *)
(* is [1.0, 2.0, 3.0].                                                     *)
Dec(m, e) == [m |-> m, e |-> e]

ScenarioThrough ==
    /\ WindowExists /\ disc.kind = "line"
    /\ stream = <<>> /\ buffer = <<>> /\ raw_data = <<>> /\ queue = <<>> /\ inflight = <<>>
    /\ pc = "top" /\ ~stopped
    /\ errBudget = MaxReadErrors /\ errors = 0
    /\ mode = "serial" => partialBudget = MaxPartialReads
    /\ \A i \in 1..Len(deliveredLog) : deliveredLog[i].accepted

C7_ScenarioRings ==
    (full = ScenarioStream /\ ScenarioThrough) =>
        /\ num_signals = 3 /\ delimiter = ","
        /\ buff_size >= 2
        /\ [i \in 1..3 |-> sample_buffers[i][1]] = <<Dec(11, 1), Dec(21, 1), Dec(31, 1)>>
        /\ [i \in 1..3 |-> sample_buffers[i][2]] = <<Dec(1, 0), Dec(2, 0), Dec(3, 0)>>

C7_PipeOnly == mode = "pipe" => C7_ScenarioRings

(* C9: a commit puts the new value at index 0 of every channel, moves each *)
(* older entry one index up and drops the last: the buffer is always the   *)
(* committed values, newest first, padded with zeros, cut to the capacity. *)
ChannelHistory(i) == [k \in 1..Len(committedLog) |-> committedLog[k].vals[i]]

C9_RotateAndEvict ==
    WindowExists =>
        \A i \in 1..num_signals :
            sample_buffers[i] = Take(Reverse(ChannelHistory(i)) \o Zeros(buff_size), buff_size)

(* C10: the Ring Buffer Set always has num_signals channels, each of       *)
(* length exactly buff_size.                                               *)
C10_RingShape ==
    WindowExists =>
        /\ Len(sample_buffers) = num_signals
        /\ \A i \in 1..Len(sample_buffers) : Len(sample_buffers[i]) = buff_size

PositiveCapacity == buff_size >= 1

C9_PositiveCapacity == PositiveCapacity => C9_RotateAndEvict

C10_PositiveCapacity == PositiveCapacity => C10_RingShape

(* C11: autoscale is not applied while fewer than SKIP_INITIAL_SAMPLES +   *)
(* AUTOSCALE_SAMPLES samples have been accepted, and the phase only moves  *)
(* forward, Skip to Collect to Active: once applied, always applied.       *)
CalibrationLength == SKIP_INITIAL_SAMPLES + AUTOSCALE_SAMPLES

Phase == IF autoscale_applied THEN 2 ELSE IF autoscale_samples # <<>> THEN 1 ELSE 0

C11_AutoscaleOnce ==
    /\ [](autoscale_applied => Len(committedLog) >= CalibrationLength)
    /\ [][Phase' >= Phase]_vars
    /\ [][autoscale_applied => autoscale_applied']_vars

C11_Witness ==
    /\ autoscale_applied
    /\ Len(committedLog) > CalibrationLength
    /\ Discarded > 0
    /\ frozen

(* C20: only committed samples count.  sample_count is the number of       *)
(* commits up to CalibrationLength and stays there; the calibration window *)
(* holds, in order, the committed samples after the first                  *)
(* SKIP_INITIAL_SAMPLES, up to the CalibrationLength-th; autoscale is      *)
(* applied exactly from the CalibrationLength-th commit on.                *)
Min2(a, b) == IF a <= b THEN a ELSE b

CountedCommits == Min2(Len(committedLog), CalibrationLength)

C20_CalibrationWindow ==
    WindowExists =>
        /\ sample_count = CountedCommits
        /\ autoscale_applied <=> Len(committedLog) >= CalibrationLength
        /\ Len(autoscale_samples) = Max2(0, CountedCommits - SKIP_INITIAL_SAMPLES)
        /\ \A k \in 1..Len(autoscale_samples) :
               autoscale_samples[k] = committedLog[SKIP_INITIAL_SAMPLES + k].vals

C20_Witness ==
    /\ autoscale_applied
    /\ Len(committedLog) = CalibrationLength + 1
    /\ Discarded > 0
    /\ \E i \in 1..CalibrationLength : ~deliveredLog[i].accepted

(* C12: freezing leaves the reader alone and discards what is delivered    *)
(* meanwhile.  Toggling the freeze button changes nothing of the worker,   *)
(* its queue or the pending emissions; a sample delivered while frozen is  *)
(* consumed, not kept pending, and leaves the rings as they are; no sample *)
(* delivered while frozen is ever committed; and a commit puts at ring     *)
(* index 0 the sample being delivered at that moment.                      *)
DeliveryStep == deliveredLog' # deliveredLog

CommitStep == committedLog' # committedLog

C12_FreezeDiscards ==
    /\ [](\A i \in 1..Len(deliveredLog) : \A k \in 1..Len(committedLog) :
            deliveredLog[i].frozen => committedLog[k].id # deliveredLog[i].s.id)
    /\ [][(frozen' # frozen) => UNCHANGED <<envVars, workerVars, eventVars, histVars>>]_vars
    /\ [][(DeliveryStep /\ frozen) =>
            (inflight' = Tail(inflight) /\ ~CommitStep /\ UNCHANGED sample_buffers)]_vars
    /\ [][(CommitStep /\ buff_size >= 1) =>
            /\ DeliveryStep /\ ~frozen
            /\ \A i \in 1..num_signals : sample_buffers'[i][1] = Head(inflight).vals[i]]_vars

C12_Witness ==
    /\ Len(deliveredLog) = 2 /\ Len(committedLog) = 1
    /\ deliveredLog[1].frozen /\ Len(deliveredLog[1].s.vals) = num_signals
    /\ deliveredLog[2].accepted /\ ~frozen
    /\ deliveredLog[1].s.vals # deliveredLog[2].s.vals
    /\ buff_size >= 2
    /\ \A i \in 1..num_signals :
           sample_buffers[i][1] = deliveredLog[2].s.vals[i] /\ sample_buffers[i][2] = Zero

(* C13: an export writes one column per channel, in channel order, and one *)
(* row per ring index, oldest first: the first row is the last ring index  *)
(* and the last row is ring index 0.                                       *)
ExportStep == exported' # exported

C13_ExportOldestFirst ==
    [][ExportStep =>
         /\ Len(exported'.header) = num_signals
         /\ Len(exported'.rows) = Len(sample_buffers[1])
         /\ \A j \in 1..Len(exported'.rows) : \A i \in 1..num_signals :
                exported'.rows[j][i] = sample_buffers[i][Len(sample_buffers[i]) + 1 - j]]_vars

(* What the code writes: the rows follow the ring index, newest first.     *)
C13_ExportNewestFirst ==
    [][ExportStep =>
         /\ Len(exported'.header) = num_signals
         /\ Len(exported'.rows) = Len(sample_buffers[1])
         /\ \A j \in 1..Len(exported'.rows) : \A i \in 1..num_signals :
                exported'.rows[j][i] = sample_buffers[i][j]]_vars

(* C18: while the window is frozen nothing of the render state changes,    *)
(* whatever is delivered: rings, sample_count, calibration window and      *)
(* autoscale_applied stay as they were when the freeze was engaged; an     *)
(* export is made only while frozen and writes the rings as they are, so   *)
(* every export of one freeze writes the same data.                        *)
RenderState == <<sample_buffers, sample_count, autoscale_samples, autoscale_applied>>

C18_FrozenRenderState ==
    /\ [][(frozen /\ frozen') => UNCHANGED RenderState]_vars
    /\ [][(frozen' # frozen) => UNCHANGED RenderState]_vars
    /\ [][ExportStep => (frozen /\ exported'.rows = Transpose(sample_buffers))]_vars

C18_Witness ==
    /\ frozen /\ exported.written
    /\ exported.rows = Transpose(sample_buffers)
    /\ Len(deliveredLog) >= 2 /\ Len(committedLog) = 1
    /\ deliveredLog[1].accepted
    /\ deliveredLog[Len(deliveredLog)].frozen
    /\ Len(deliveredLog[Len(deliveredLog)].s.vals) = num_signals
    /\ buff_size >= 1

(* C19: a delivered sample whose length differs from the channel count is  *)
(* dropped without an error: rings, sample_count, calibration window and   *)
(* autoscale_applied are unchanged by it, and correctly shaped samples     *)
(* delivered afterwards are still committed.                               *)
C19_ShapeMismatchDiscarded ==
    /\ [][(DeliveryStep /\ Len(Head(inflight).vals) # num_signals) =>
            (UNCHANGED RenderState /\ ~CommitStep /\ errors' = errors /\ inflight' = Tail(inflight))]_vars
    /\ [][(DeliveryStep /\ ~frozen /\ Len(Head(inflight).vals) = num_signals) =>
            committedLog' = Append(committedLog, Head(inflight))]_vars

C19_Witness ==
    /\ Len(deliveredLog) = 3 /\ Len(committedLog) = 2
    /\ Len(deliveredLog[2].s.vals) # num_signals
    /\ ~deliveredLog[2].frozen
    /\ deliveredLog[3].accepted
    /\ errors = 0

(* C14: in pipe mode, once a record parsed after discovery with a field    *)
(* count other than the discovered one has been delivered, the application *)
(* has been told of the change: a channel-count-changed emission, whose    *)
(* handler on_signals_detected sets the window's channel count to the new  *)
(* one, or at least an error event.                                        *)
(* StdinWorker declares data_received and error_occurred and nothing else, *)
(* so no channel-count-changed emission exists.                            *)
signals_detected == <<>>

MismatchDelivered ==
    /\ mode = "pipe" /\ disc.kind = "line"
    /\ \E i \in 1..Len(deliveredLog) : Len(deliveredLog[i].s.vals) # disc.count

C15_CooperativeStop ==
    /\ [][(mode = "serial" /\ stopped) => errors' = errors]_vars
    /\ []((mode = "serial" /\ pc = "done") => queue = <<>>)

(* C16: in steady state a record with a non-numeric field yields no        *)
(* sample and no error, and changes neither the delimiter nor the samples  *)
(* queued or emitted so far; every well-formed record, before or after it, *)
(* in the same tick or a later one, yields exactly one sample.             *)
SampleOfLine(i) == { k \in 1..Len(parsedLog) : parsedLog[k].id = i }

C16_BadRecordSkipped ==
    /\ [](WindowExists =>
            \A i \in disc.first..Len(linesLog) :
                IF ParseOk(linesLog[i], SessionDelimiter)
                THEN /\ Cardinality(SampleOfLine(i)) = 1
                     /\ \A k \in SampleOfLine(i) :
                            parsedLog[k].vals = ParseValues(linesLog[i], SessionDelimiter)
                ELSE SampleOfLine(i) = {})
    /\ [][(WindowExists /\ linesLog' # linesLog /\ parsedLog' = parsedLog) =>
            (errors' = errors /\ delimiter' = delimiter
             /\ (Emitted \o queue)' = Emitted \o queue)]_vars

C16_Witness ==
    /\ WindowExists
    /\ Len(linesLog) = disc.first + 1
    /\ ~ParseOk(linesLog[disc.first], SessionDelimiter)
    /\ ParseOk(linesLog[disc.first + 1], SessionDelimiter)
    /\ Len(deliveredLog) >= 1
    /\ deliveredLog[Len(deliveredLog)].s.id = disc.first + 1
    /\ errors = 0

(* C17: when the serial port cannot be opened, the error leaves the        *)
(* constructor, the open is not tried again and nothing of the session     *)
(* ever runs: no discovery, no reader loop, no byte read, no sample.       *)
OpenHasFailed == mode = "serial" /\ pc = "fatal" /\ ~serOpen

C17_OpenFailureFatal ==
    /\ [](OpenHasFailed =>
            /\ disc.kind = "pending" /\ ~WindowExists /\ ~running
            /\ stream = full /\ linesLog = <<>> /\ parsedLog = <<>>
            /\ queue = <<>> /\ inflight = <<>> /\ deliveredLog = <<>>
            /\ errors = 1)
    /\ [][(pc = "open" /\ errors' # errors) => pc' = "fatal"]_vars
    /\ [][OpenHasFailed => UNCHANGED vars]_vars

C17_Witness == OpenHasFailed /\ errors = 1 /\ full # <<>>

(* C21: once discovery has returned, the delimiter is never assigned       *)
(* again; it is the one discovery detected in the line it used (tab after  *)
(* the serial fallback), and every record read in steady state is split on *)
(* it (on tab while it is unset), whatever candidate characters the record *)
(* contains: a sample has one value per field of that split.               *)
SteadyLines == { i \in 1..Len(linesLog) : i >= disc.first /\ ~(mode = "pipe" /\ i = disc.first /\ disc.kind = "line") }

C21_DelimiterFixed ==
    /\ [][WindowExists => delimiter' = delimiter]_vars
    /\ [](WindowExists =>
            /\ disc.kind = "line" => delimiter = detect_delimiter(disc.line)
            /\ disc.kind = "fallback" => delimiter = DEFAULT_DELIMITER
            /\ mode = "serial" => delimiter # None
            /\ \A k \in 1..Len(parsedLog) :
                   parsedLog[k].id \in SteadyLines =>
                       LET fields == Split(linesLog[parsedLog[k].id], SessionDelimiter)
                       IN  /\ Len(parsedLog[k].vals) = Len(fields)
                           /\ \A f \in 1..Len(fields) :
                                  /\ IsFloat(Strip(fields[f]))
                                  /\ parsedLog[k].vals[f] = ToFloat(Strip(fields[f]))
            /\ \A i \in SteadyLines :
                   (\E c \in Candidates \ {SessionDelimiter} : Contains(linesLog[i], c))
                       => SampleOfLine(i) = {})

C21_Witness ==
    /\ WindowExists /\ disc.kind = "line"
    /\ delimiter = "\t"
    /\ \E i \in SteadyLines : Contains(linesLog[i], ",")
    /\ stream = <<>> /\ pc = "top" /\ queue = <<>>

(* C22: the queue is drained entirely, never partially.  A tick that ends  *)
(* without an exception leaves the queue empty, and at that moment every   *)
(* sample ever appended to the queue has been emitted exactly once, in the *)
(* order of the appends; a step that takes anything out of the queue       *)
(* empties it; a flush of an empty queue emits nothing and the tick ends   *)
(* all the same.                                                           *)
SerialTickCompletes ==
    mode = "serial" /\ pc = "poll" /\ pc' = "top" /\ errors' = errors /\ stream' = stream

PipeTickCompletes == mode = "pipe" /\ pc = "drain" /\ pc' = "top"

TickCompletes == SerialTickCompletes \/ PipeTickCompletes

C22_DrainedEntirely ==
    /\ [][TickCompletes => (queue' = <<>> /\ Emitted' = parsedLog')]_vars
    /\ [][(queue # <<>> /\ ~IsPrefix(queue, queue')) => queue' = <<>>]_vars
    /\ [][(TickCompletes /\ queue = <<>> /\ parsedLog' = parsedLog) =>
            (inflight' = inflight /\ pc' = "top")]_vars
    /\ [](\A i \in 1..Len(Emitted) : \A j \in 1..Len(Emitted) :
            i < j => Emitted[i].id < Emitted[j].id)

C22_Witness ==
    /\ pc = "top" /\ queue = <<>>
    /\ Len(inflight) >= 2 /\ deliveredLog = <<>>
    /\ inflight = parsedLog
    /\ inflight[1].vals # inflight[2].vals

(* C23: after stop() the reader starts no new tick.  The tick in progress  *)
(* goes on to its end and nowhere else; at the top of the loop the reader  *)
(* then leaves it, whatever is left unread; having left, it does nothing   *)
(* more; and every step it takes after stop() brings the exit nearer, by   *)
(* a distance that is bounded by the bytes still to come.                  *)
ReaderStep == <<pc, stream>>' # <<pc, stream>>

StopDistance ==
    CASE pc = "done" -> 0
      [] pc = "top" -> 1
      [] OTHER -> 2 + Len(stream)

ReadErrorStep == WindowExists /\ errBudget' < errBudget

BytesRead == Take(stream, Len(stream) - Len(stream'))

DecodeFailureStep == mode = "serial" /\ pc = "poll" /\ ~ValidUtf8(BytesRead)

C24_LoopSurvivesErrors ==
    /\ [][ReadErrorStep => (errors' = errors + 1 /\ pc' = "top")]_vars
    /\ [][DecodeFailureStep => (errors' = errors /\ pc' = "top")]_vars
    /\ [](pc = "done" => ~running)

(* What holds of the code: the serial reader reports the error, the pipe   *)
(* reader ends its drain loop on it and completes the tick in silence.     *)
C24_PipeErrorSilent ==
    /\ [][(ReadErrorStep /\ mode = "serial") => (errors' = errors + 1 /\ pc' = "top")]_vars
    /\ [][(ReadErrorStep /\ mode = "pipe") =>
            (errors' = errors /\ pc' = "top" /\ queue' = <<>>)]_vars
    /\ [][DecodeFailureStep => (errors' = errors /\ pc' = "top")]_vars
    /\ [](pc = "done" => ~running)

(* C25: a tick of the pipe reader in which a read of the byte source fails *)
(* with an error other than "no data yet" ends with the backoff sleep of   *)
(* 100 ms, not with the short sleep of 1 ms.                               *)
C25_BackoffAfterReadError ==
    [][(ReadErrorStep /\ mode = "pipe") => slept' = Backoff]_vars

(* What holds of the code: every tick of the pipe reader, a read error in  *)
(* it or not, ends with the short sleep.                                   *)
C25_AlwaysShortSleep ==
    /\ [][(ReadErrorStep /\ mode = "pipe") => slept' = ShortSleep]_vars
    /\ [](slept \in {NoSleep, ShortSleep})

(* C26: once the writer has closed the pipe and the reader has read the    *)
(* end of file (a read that returns no bytes), the reader has told the     *)
(* application: by the end of that tick an error event, the only event a   *)
(* worker has besides data_received, has been emitted.                     *)
EofTick == PipeTickCompletes /\ closed /\ stream = <<>> /\ errBudget' = errBudget

C26_EndOfStreamSignalled == [][EofTick => errors' > 0]_vars

(* What holds of the code: a tick that reads the end of file emits no      *)
(* error, and with nothing left to frame it leaves the reader where the    *)
(* tick before left it, to poll again.                                     *)
C26_EofPolledSilently ==
    /\ [][EofTick => errors' = errors]_vars
    /\ [][(EofTick /\ raw_data = <<>> /\ ~Contains(buffer, "\n") /\ queue = <<>>) =>
            UNCHANGED <<envVars, running, delimiter, buffer, raw_data, queue,
                        eventVars, winVars, histVars>>]_vars
    /\ [](mode = "pipe" => errors = 0)

(* C27: once autoscale is applied, every commit sets each channel's Y      *)
(* range from the ring as it is after the commit: with S the non-zero      *)
(* entries of the ring if there are any, else the (all-zero) ring, the     *)
(* range is [min S - pad, max S + pad], pad being a tenth of max S - min S *)
(* when that is positive and 0.5 otherwise.  A delivery that commits       *)
(* nothing, and a commit made before autoscale is applied, set no range.   *)
Entries(ring) == {ring[j] : j \in 1..Len(ring)}

Considered(ring) == IF Entries(ring) \ {Zero} # {} THEN Entries(ring) \ {Zero} ELSE Entries(ring)

IsBoundsOf(range, ring) ==
    \E lo \in Considered(ring) : \E hi \in Considered(ring) :
        /\ \A x \in Considered(ring) : DecLeq(lo, x) /\ DecLeq(x, hi)
        /\ LET pad == IF lo # hi THEN DecTenth(DecSub(hi, lo)) ELSE Half
           IN  range = <<DecSub(lo, pad), DecAdd(hi, pad)>>

RescaleStep == ~DeliveryStep /\ <<yrange, pc>>' # <<yrange, pc>>

FirstTenth(ring) == SubSeq(ring, 1, Min2(Len(ring), Max2(1, buff_size \div 10)))

RescaleEffect ==
    /\ \A i \in 1..num_signals :
           IF FirstTenth(sample_buffers[i]) = <<>> THEN yrange'[i] = yrange[i]
           ELSE IsBoundsOf(yrange'[i], FirstTenth(sample_buffers[i]))
    /\ UNCHANGED <<RenderState, frozen, num_signals, buff_size>>

C28_RescaleFrame == [][RescaleStep => (RescaleEffect /\ pc' = pc)]_vars

(* What holds of the code: the ranges and the frame are as stated, and the *)
(* handler returns whenever the capacity is not 0.                         *)
C28_PositiveCapacity ==
    [][RescaleStep => (RescaleEffect /\ (PositiveCapacity => pc' = pc))]_vars

(* C29: under fair scheduling, whatever the arrival pattern, the inner     *)
(* loop of every tick ends, the tick reaches its flush, and a parsed       *)
(* sample does not stay in the reader's queue for ever.                    *)
C29_ParsedEventuallyEmitted ==
    /\ (pc = "poll") ~> (pc = "top")
    /\ (queue # <<>>) ~> (queue = <<>>)

(* What holds of the code: the inner loop is left, and the queue flushed,  *)
(* only at a poll that finds nothing waiting (or at an exception).         *)
C29_FlushOnlyWhenIdle ==
    /\ [][(pc = "poll" /\ pc' = "top" /\ errors' = errors) =>
            (stream' = stream \/ ~ValidUtf8(BytesRead))]_vars
    /\ [][(queue # <<>> /\ queue' = <<>>) => (pc = "poll" /\ stream' = stream)]_vars

(* C30: in the serial reader a tick ended by an exception, a decode        *)
(* failure or any other, emits nothing and keeps in the queue the samples  *)
(* it and earlier ticks parsed; samples parsed later are appended behind   *)
(* them; and the next tick that reaches its flush emits the whole queue,   *)
(* oldest first.  So every parsed sample is either emitted or still        *)
(* queued, in the order of parsing.                                        *)
AbortStep == mode = "serial" /\ pc = "poll" /\ pc' = "top" /\ ~SerialTickCompletes

C30_PendingSurvivesAbort ==
    /\ [][AbortStep => (queue' = queue /\ inflight' = inflight)]_vars
    /\ [][(mode = "serial" /\ pc = "poll" /\ pc' = "poll") => IsPrefix(queue, queue')]_vars
    /\ [][SerialTickCompletes => (inflight' = inflight \o queue /\ queue' = <<>>)]_vars
    /\ [](mode = "serial" =>
            /\ IsPrefix(Emitted, parsedLog)
            /\ queue = Drop(parsedLog, Len(Emitted)))

C30_Witness ==
    /\ mode = "serial" /\ pc = "top" /\ running
    /\ queue # <<>> /\ errors = 0
    /\ errBudget = MaxReadErrors
    /\ stream # <<>>

(* C31: with autoscale applied, the ranges a manual rescale set last only  *)
(* until the next commit: whatever the ranges were, the commit leaves each *)
(* channel with the bounds of its whole ring.  A sample delivered while    *)
(* the window is frozen, and a commit made before autoscale is applied,    *)
(* leave the ranges of the rescale in place, as does every step that is    *)
(* neither a delivery nor another rescale.                                 *)
RescaleBounds == \A i \in 1..num_signals : IsBoundsOf(yrange[i], FirstTenth(sample_buffers[i]))

RingBounds == \A i \in 1..num_signals : IsBoundsOf(yrange[i], sample_buffers[i])

LastNewline(bytes) ==
    IF Contains(bytes, "\n")
    THEN CHOOSE i \in 1..Len(bytes) : bytes[i] = "\n" /\ \A j \in (i + 1)..Len(bytes) : bytes[j] # "\n"
    ELSE 0

FinalRecord(bytes) == Drop(bytes, LastNewline(bytes))

NewlinesRead == Cardinality({i \in 1..(Len(full) - Len(stream)) : full[i] = "\n"})

C32_UnterminatedKept ==
    /\ [](mode = "pipe" =>
            /\ Len(linesLog) <= NewlinesRead
            /\ \A k \in 1..Len(parsedLog) : parsedLog[k].id <= Len(linesLog)
            /\ \A i \in 1..Len(linesLog) : linesLog[i] # FinalRecord(full)
            /\ (stream = <<>> /\ raw_data = <<>>) => FinalRecord(buffer) = FinalRecord(full))
    /\ [][(mode = "pipe" /\ pc = "drain" /\ pc' = "top" /\ stream' = <<>>) =>
            buffer' = FinalRecord(full)]_vars
    /\ [][(mode = "pipe" /\ (closed' # closed \/ stopped' # stopped)) =>
            UNCHANGED <<buffer, queue, inflight, linesLog, parsedLog>>]_vars

C32_Witness ==
    /\ mode = "pipe" /\ closed /\ stopped /\ pc = "done"
    /\ disc.kind = "line" /\ delimiter = "\t"
    /\ FinalRecord(full) = <<"2">> /\ buffer = <<"2">>
    /\ Len(deliveredLog) = 1 /\ queue = <<>>

=============================================================================
